---- MODULE Spec2Model ----
(***************************************************************************)
(* IsoCor 1.0 (IsoCor.pyw): the correction class `process`, and the        *)
(* handlers of the graphical front-end that load measurements and run the  *)
(* correction.                                                             *)
(*                                                                         *)
(* Numbers.  Python floats are modelled as exact rationals.  A vector of   *)
(* floats (an isotope vector, the MDV, a column of the correction matrix,  *)
(* the measured cluster) is a record [num |-> <<integers>>, den |-> d]     *)
(* standing for num[i]/d.  A single float that is reported (an entry of    *)
(* mid or residuum, enr_calc) is a pair <<n, d>> in lowest terms, d > 0;   *)
(* <<1, 0>> is float('inf').                                               *)
(*                                                                         *)
(* Text.  A string whose characters the code looks at (a formula) is a     *)
(* sequence of one-character strings.                                      *)
(***************************************************************************)
EXTENDS Integers, Sequences, FiniteSets, TLC

VARIABLES
    keys,             \* iteration order of the dict self.isotop (fixed once loaded)
    cb_el_cor,        \* combo box: the isotopic tracer
    cb_el_excluded,   \* combo box "nat. ab. of the tracer": "yes" / "no"
    cb_mean_enr,      \* combo box "Calc. mean enrichment": "yes" / "no"
    entry_el_pur,     \* text of the purity entry, as its ';'-separated fields
    entry_form_meta,  \* text of the metabolite formula entry
    entry_form_der,   \* text of the derivative formula entry
    input_file,       \* gui.input_file: "" in single-measurement mode
    liste,            \* items of the list box self.liste
    dict_meta,        \* gui.dict_meta: sample -> its metabolite records
    sample_list,      \* gui.sample_list
    last,             \* what the handler that ran last did (its locals and output)
    fit               \* how the next call of fmin_l_bfgs_b ends: d['warnflag'] and
                      \* the iterate it returns

vars == <<keys, cb_el_cor, cb_el_excluded, cb_mean_enr, entry_el_pur,
          entry_form_meta, entry_form_der, input_file, liste, dict_meta,
          sample_list, last, fit>>

-----------------------------------------------------------------------------
(* Integer and rational helpers (Python float arithmetic, done exactly).   *)

Abs(x) == IF x < 0 THEN -x ELSE x

Min(S) == CHOOSE x \in S : \A y \in S : x <= y

RECURSIVE GCD(_, _)
GCD(a, b) == IF b = 0 THEN Abs(a) ELSE GCD(b, a % b)

LCM(a, b) == (a \div GCD(a, b)) * b

\* the float n/d, in lowest terms with a positive denominator
Rat(n, d) ==
    IF d = 0 THEN <<1, 0>>
    ELSE LET g == GCD(Abs(n), Abs(d))
             s == IF d < 0 THEN -1 ELSE 1
         IN  <<s * (n \div g), s * (d \div g)>>

RatAdd(p, q) == Rat(p[1] * q[2] + q[1] * p[2], p[2] * q[2])

RatMul(p, q) == Rat(p[1] * q[1], p[2] * q[2])

RatLe(p, q) == p[1] * q[2] <= q[1] * p[2]

inf == <<1, 0>>

RECURSIVE SeqSum(_)
SeqSum(s) == IF s = <<>> THEN 0 ELSE s[1] + SeqSum(Tail(s))

\* sum() of a list of floats
RECURSIVE RatSum(_)
RatSum(s) == IF s = <<>> THEN <<0, 1>> ELSE RatAdd(s[1], RatSum(Tail(s)))

\* s[:m]
Take(s, m) == IF m >= Len(s) THEN s ELSE SubSeq(s, 1, m)

-----------------------------------------------------------------------------
(* The isotope table, as load_iso returns it from 'Isotopes.dat'.          *)

isotop ==
    [C  |-> [num |-> <<1, 1>>,    den |-> 2],
     Cl |-> [num |-> <<1, 0, 1>>, den |-> 2]]

Elements == DOMAIN isotop

\* the characters of each element symbol
ElChars == [C |-> <<"C">>, Cl |-> <<"C", "l">>]

\* the orders in which a dict with these keys can be iterated
KeyOrders ==
    {s \in [1..Cardinality(Elements) -> Elements] :
        \A i, j \in DOMAIN s : i # j => s[i] # s[j]}

-----------------------------------------------------------------------------
(* process.parse_formula                                                   *)

DigitChars == <<"0", "1", "2", "3", "4", "5", "6", "7", "8", "9">>

IsDigit(c) == \E i \in DOMAIN DigitChars : DigitChars[i] = c

DigitVal(c) == (CHOOSE i \in DOMAIN DigitChars : DigitChars[i] = c) - 1

\* int(n) of a string of decimal digits
RECURSIVE int(_)
int(n) == IF n = <<>> THEN 0
          ELSE 10 * int(SubSeq(n, 1, Len(n) - 1)) + DigitVal(n[Len(n)])

\* does the text `sub` occur in f at position i
MatchAt(sub, f, i) ==
    /\ i + Len(sub) - 1 <= Len(f)
    /\ \A k \in 1..Len(sub) : f[i + k - 1] = sub[k]

\* `sub in f` on strings
Contains(f, sub) == \E i \in 1..(Len(f) + 1) : MatchAt(sub, f, i)

\* first position at or after i that holds no digit: the end of [0-9]{0,}
RECURSIVE DigitsEnd(_, _)
DigitsEnd(f, i) ==
    IF i <= Len(f) /\ IsDigit(f[i]) THEN DigitsEnd(f, i + 1) ELSE i

\* re.findall("(k1|k2|...)([0-9]{0,})", f) scanning from position i: at each
\* position the first alternative, in the order of the keys, that matches is
\* taken; a position where none matches is skipped
RECURSIVE findall(_, _, _)
findall(ks, f, i) ==
    IF i > Len(f) THEN <<>>
    ELSE LET alt == {k \in DOMAIN ks : MatchAt(ElChars[ks[k]], f, i)}
         IN  IF alt = {} THEN findall(ks, f, i + 1)
             ELSE LET el == ks[Min(alt)]
                      j  == i + Len(ElChars[el])
                      e  == DigitsEnd(f, j)
                  IN  <<[el |-> el, n |-> SubSeq(f, j, e - 1)]>>
                          \o findall(ks, f, e)

RECURSIVE Accumulate(_, _)
Accumulate(ms, d) ==
    IF ms = <<>> THEN d
    ELSE LET m == ms[1]
             c == IF m.n # <<>> THEN int(m.n) ELSE 1
         IN  Accumulate(Tail(ms), [d EXCEPT ![m.el] = @ + c])

parse_formula(ks, f) ==
    Accumulate(findall(ks, f, 1), [el \in Elements |-> 0])

-----------------------------------------------------------------------------
(* numpy.convolve and process.calc_mdv                                     *)

RECURSIVE ConvTerm(_, _, _, _)
ConvTerm(a, b, k, i) ==
    IF i > Len(a) THEN 0
    ELSE (IF k + 1 - i \in 1..Len(b) THEN a[i] * b[k + 1 - i] ELSE 0)
             + ConvTerm(a, b, k, i + 1)

\* numpy.convolve(a, b) cut to the length of a
ConvolveSame(a, b) ==
    [num |-> [k \in 1..Len(a.num) |-> ConvTerm(a.num, b.num, k, 1)],
     den |-> a.den * b.den]

\* numpy.convolve(a, b), mode 'full'
convolve(a, b) ==
    [num |-> [k \in 1..(Len(a.num) + Len(b.num) - 1) |->
                 ConvTerm(a.num, b.num, k, 1)],
     den |-> a.den * b.den]

\* cnt successive convolutions of `result` with w
RECURSIVE ConvTimes(_, _, _)
ConvTimes(result, w, cnt) ==
    IF cnt = 0 THEN result ELSE ConvTimes(convolve(result, w), w, cnt - 1)

\* the loop over the metabolite's elements with the tracer's atoms taken in
RECURSIVE MdvMetaAll(_, _, _, _, _, _)
MdvMetaAll(ks, d, el_cor, el_excluded, result, i) ==
    IF i > Len(ks) THEN result
    ELSE MdvMetaAll(ks, d, el_cor, el_excluded,
                    ConvTimes(result, isotop[ks[i]], d[ks[i]]), i + 1)

\* the loop over el_dict_meta.iteritems(), from the i-th key on
RECURSIVE MdvMeta(_, _, _, _, _, _)
MdvMeta(ks, d, el_cor, el_excluded, result, i) ==
    IF i > Len(ks) THEN result
    ELSE LET el == ks[i]
         IN  MdvMeta(ks, d, el_cor, el_excluded,
                     IF el # el_cor /\ el # el_excluded
                         THEN ConvTimes(result, isotop[el], d[el])
                         ELSE result,
                     i + 1)

\* a loop over the derivative's elements that ends after the first of them
MdvDerFirst(ks, d, result, i) ==
    IF i > Len(ks) THEN result ELSE ConvTimes(result, isotop[ks[i]], d[ks[i]])

\* the loop over el_dict_der.iteritems(), from the i-th key on
RECURSIVE MdvDer(_, _, _, _)
MdvDer(ks, d, result, i) ==
    IF i > Len(ks) THEN result
    ELSE MdvDer(ks, d, ConvTimes(result, isotop[ks[i]], d[ks[i]]), i + 1)

calc_mdv(ks, el_dict_meta, el_dict_der, el_cor, el_excluded) ==
    MdvDer(ks, el_dict_der,
           MdvMeta(ks, el_dict_meta, el_cor, el_excluded,
                   [num |-> <<1>>, den |-> 1], 1),
           1)

-----------------------------------------------------------------------------
(* The correction matrix (process.__init__, "create correction matrix").   *)

\* [0.]*k
Zeros(k) == [i \in 1..k |-> 0]

\* cnt times a convolution whose entries past m_size come back at the start
\* of the column
RECURSIVE ConvFold(_, _, _, _)
ConvFold(column, w, cnt, m_size) ==
    IF cnt = 0 THEN column
    ELSE LET c == convolve(column, w)
             folded == [k \in 1..Len(column.num) |->
                           c.num[k] + (IF k + m_size <= Len(c.num)
                                           THEN c.num[k + m_size] ELSE 0)]
         IN  ConvFold([num |-> folded, den |-> c.den], w, cnt - 1, m_size)

\* cnt times: column = numpy.convolve(column, w)[:m_size]
RECURSIVE ConvTrunc(_, _, _, _)
ConvTrunc(column, w, cnt, m_size) ==
    IF cnt = 0 THEN column
    ELSE LET c == convolve(column, w)
         IN  ConvTrunc([num |-> Take(c.num, m_size), den |-> c.den],
                       w, cnt - 1, m_size)

\* a column built with the purity and the natural abundance of the tracer in
\* each other's place
MatrixColumnSwapped(correction_vector, el_pur, el_cor, el_excluded, nAtom_cor, m_size, i) ==
    LET column == [num |-> Take(correction_vector.num, m_size),
                   den |-> correction_vector.den]
        purity == ConvTrunc(column, el_pur, nAtom_cor - i, m_size)
    IN  IF el_excluded # el_cor
            THEN ConvTrunc(purity, isotop[el_cor], i, m_size)
            ELSE purity

\* column i of the correction matrix (i = 0..nAtom_cor)
MatrixColumn(correction_vector, el_pur, el_cor, el_excluded, nAtom_cor, m_size, i) ==
    LET column == [num |-> Take(correction_vector.num, m_size),
                   den |-> correction_vector.den]
        purity == ConvTrunc(column, el_pur, i, m_size)
    IN  IF el_excluded # el_cor
            THEN ConvTrunc(purity, isotop[el_cor], nAtom_cor - i, m_size)
            ELSE purity

\* the matrix as the sequence of its columns 0..nAtom_cor (index i+1 here)
CorrectionMatrix(correction_vector, el_pur, el_cor, el_excluded, nAtom_cor, m_size) ==
    [c \in 1..(nAtom_cor + 1) |->
        MatrixColumn(correction_vector, el_pur, el_cor, el_excluded,
                     nAtom_cor, m_size, c - 1)]

-----------------------------------------------------------------------------
(* optimize.fmin_l_bfgs_b on cost_function with bounds (0, inf): the       *)
(* minimiser of |v_mes - mat_cor.mid|^2 over mid >= 0.  The matrices built *)
(* here have independent columns, so the minimiser is unique; it is found  *)
(* as the least-squares solution on the one support whose solution is      *)
(* non-negative and whose gradient is non-negative off the support.        *)

RECURSIVE Dot(_, _)
Dot(a, b) == IF a = <<>> THEN 0 ELSE a[1] * b[1] + Dot(Tail(a), Tail(b))

Drop(s, j) == SubSeq(s, 1, j - 1) \o SubSeq(s, j + 1, Len(s))

RECURSIVE Det(_)
RECURSIVE DetRow(_, _)
\* Laplace expansion along the first row, from column j on
DetRow(Mx, j) ==
    IF j > Len(Mx) THEN 0
    ELSE (IF j % 2 = 1 THEN 1 ELSE -1) * Mx[1][j]
             * Det([r \in 1..(Len(Mx) - 1) |-> Drop(Mx[r + 1], j)])
         + DetRow(Mx, j + 1)
Det(Mx) == IF Mx = <<>> THEN 1 ELSE DetRow(Mx, 1)

RECURSIVE SortedSeq(_)
SortedSeq(S) == IF S = {} THEN <<>> ELSE <<Min(S)>> \o SortedSeq(S \ {Min(S)})

RECURSIVE SeqGCD(_)
SeqGCD(s) == IF s = <<>> THEN 0 ELSE GCD(s[1], SeqGCD(Tail(s)))

RECURSIVE DenLCM(_)
DenLCM(cols) == IF cols = <<>> THEN 1 ELSE LCM(cols[1].den, DenLCM(Tail(cols)))

\* the columns over one common denominator: the integers a[j][k] with
\* mat_cor[k, j] = a[j][k] / DenLCM(cols)
IntColumns(cols) ==
    [j \in DOMAIN cols |->
        [k \in DOMAIN cols[j].num |->
            cols[j].num[k] * (DenLCM(cols) \div cols[j].den)]]

\* least squares of v on the columns a[j], j in S: numerators and the common
\* denominator of the solution (Cramer's rule on the normal equations)
SupportSolution(a, v, S) ==
    LET idx  == SortedSeq(S)
        G    == [r \in DOMAIN idx |-> [c \in DOMAIN idx |-> Dot(a[idx[r]], a[idx[c]])]]
        b    == [r \in DOMAIN idx |-> Dot(a[idx[r]], v)]
        D    == Det(G)
        Nr(r) == Det([q \in DOMAIN idx |-> [c \in DOMAIN idx |->
                        IF c = r THEN b[q] ELSE G[q][c]]])
    IN  [den |-> D,
         num |-> [j \in DOMAIN a |->
                    IF j \in S
                        THEN Nr(CHOOSE r \in DOMAIN idx : idx[r] = j)
                        ELSE 0]]

\* -1/2 of the gradient of the cost at y = num/den, times den: a^T (v.den - a.num)
HalfDescent(a, v, y) ==
    LET resid == [k \in DOMAIN v |->
                    v[k] * y.den - Dot([j \in DOMAIN a |-> a[j][k]], y.num)]
    IN  [j \in DOMAIN a |-> Dot(a[j], resid)]

IsMinimiser(a, v, S, y) ==
    /\ y.den > 0
    /\ \A j \in S : y.num[j] > 0
    /\ \A j \in DOMAIN a : j \notin S => HalfDescent(a, v, y)[j] <= 0

\* a solver that returns its start point
NoFit(cols, v_mes) == [num |-> Zeros(Len(cols)), den |-> 1]

\* mid of (mid, r, d) = fmin_l_bfgs_b(...): a[j][k]/L the matrix, v[k]/vden the
\* measured vector
fmin_l_bfgs_b(cols, v_mes) ==
    LET a == IntColumns(cols)
        L == DenLCM(cols)
        S == CHOOSE T \in SUBSET (DOMAIN a) :
                 IsMinimiser(a, v_mes.num, T, SupportSolution(a, v_mes.num, T))
        y == SupportSolution(a, v_mes.num, S)
        g == LET h == GCD(SeqGCD(y.num) * L, y.den * v_mes.den)
             IN  IF h = 0 THEN 1 ELSE h
    IN  [num |-> [j \in DOMAIN a |-> (y.num[j] * L) \div g],
         den |-> (y.den * v_mes.den) \div g]

\* numpy.dot(mat_cor, mid)
MatVec(cols, mid) ==
    LET a == IntColumns(cols)
    IN  [num |-> [k \in DOMAIN a[1] |-> Dot([j \in DOMAIN a |-> a[j][k]], mid.num)],
         den |-> DenLCM(cols) * mid.den]

\* u - w on vectors of floats
VecSub(u, w) ==
    [num |-> [k \in DOMAIN u.num |-> u.num[k] * w.den - w.num[k] * u.den],
     den |-> u.den * w.den]

\* the floats of a vector, one by one
Floats(u) == [k \in DOMAIN u.num |-> Rat(u.num[k], u.den)]

RatDiv(p, q) == Rat(p[1] * q[2], p[2] * q[1])

-----------------------------------------------------------------------------
(* process.__init__: the attributes of the object it leaves (and the       *)
(* locals m_size, c_size), or the exception it raises.                     *)

\* an attribute that was never assigned
NotSet == <<0, 0>>

\* a local that was never assigned (solution: the local mid, the first value
\* fmin_l_bfgs_b returns; resi: the local resi)
NoVector == [num |-> <<>>, den |-> 1]

\* the messages of self.err
ErrTooShort == "The lenght of the measured isotopic cluster is too low."
ErrTooSmall == "Problem in matrix size."
ErrNoTracer == "The isotopic tracer must to be present in the metabolite."

\* self.err after the three checks, each overwriting the one before
\* the checks with a cluster of n*inc peaks let through
CheckErrShortByOne(m_size, c_size, nAtom_cor, inc, el_cor, meta_form) ==
    LET e1 == IF m_size < nAtom_cor * inc THEN ErrTooShort ELSE ""
        e2 == IF m_size > c_size + nAtom_cor * inc THEN ErrTooSmall ELSE e1
    IN  IF ~Contains(meta_form, ElChars[el_cor]) THEN ErrNoTracer ELSE e2

\* the checks with the longest cluster the formula explains refused
CheckErrLongByOne(m_size, c_size, nAtom_cor, inc, el_cor, meta_form) ==
    LET e1 == IF m_size < nAtom_cor * inc + 1 THEN ErrTooShort ELSE ""
        e2 == IF m_size >= c_size + nAtom_cor * inc THEN ErrTooSmall ELSE e1
    IN  IF ~Contains(meta_form, ElChars[el_cor]) THEN ErrNoTracer ELSE e2

\* the checks with one peak more than the highest mass shift asked for
CheckErrOneMore(m_size, c_size, nAtom_cor, inc, el_cor, meta_form) ==
    LET e1 == IF m_size < nAtom_cor * inc + 2 THEN ErrTooShort ELSE ""
        e2 == IF m_size > c_size + nAtom_cor * inc THEN ErrTooSmall ELSE e1
    IN  IF ~Contains(meta_form, ElChars[el_cor]) THEN ErrNoTracer ELSE e2

CheckErr(m_size, c_size, nAtom_cor, inc, el_cor, meta_form) ==
    LET e1 == IF m_size < nAtom_cor * inc + 1 THEN ErrTooShort ELSE ""
        e2 == IF m_size > c_size + nAtom_cor * inc THEN ErrTooSmall ELSE e1
    IN  IF ~Contains(meta_form, ElChars[el_cor]) THEN ErrNoTracer ELSE e2

\* self.mid after "normalize mid"
NormalizeMid(mid) ==
    LET sum_p == Rat(SeqSum(mid.num), mid.den)
    IN  IF sum_p # <<0, 1>>
            THEN [i \in DOMAIN mid.num |-> RatDiv(Rat(mid.num[i], mid.den), sum_p)]
            ELSE <<>>

\* the residuum left as the solver's residual, not divided by sum(v_measured)
RawResiduum(resi, v_measured) ==
    [k \in DOMAIN resi.num |-> Rat(resi.num[k], resi.den)]

\* self.residuum after "normalize ... residuum"
NormalizeResiduum(resi, v_measured) ==
    LET sum_m == Rat(SeqSum(v_measured.num), v_measured.den)
    IN  IF sum_m # <<0, 1>>
            THEN [k \in DOMAIN resi.num |-> RatDiv(Rat(resi.num[k], resi.den), sum_m)]
            ELSE <<inf>>

\* sum(p*i for i,p in enumerate(self.mid))
RECURSIVE Enumerated(_, _)
Enumerated(mid, i) ==
    IF i > Len(mid) THEN <<0, 1>>
    ELSE RatAdd(RatMul(mid[i], <<i - 1, 1>>), Enumerated(mid, i + 1))

\* the weighted sum divided by the number of isotopologues, n + 1
MeanEnrichmentPerPeak(mid, nAtom_cor) ==
    RatDiv(Enumerated(mid, 1), <<nAtom_cor + 1, 1>>)

\* sum(p*i for i,p in enumerate(self.mid))/self.nAtom_cor, nAtom_cor # 0
MeanEnrichment(mid, nAtom_cor) == RatDiv(Enumerated(mid, 1), <<nAtom_cor, 1>>)

\* The ways a call of fmin_l_bfgs_b can end.  warnflag is d['warnflag']: 0 when
\* the fit converged, 1 when the cap on evaluations was reached, 2 when it
\* stopped for another reason.  A fit that converged returns the minimiser; one
\* that did not returns its last iterate, modelled by the two ends of its way:
\* the start point mid_ini and the minimiser.
Converged == [warnflag |-> 0, at |-> "minimiser"]

Fits ==
    {Converged} \cup [warnflag : {1, 2}, at : {"mid_ini", "minimiser"}]

\* mid_ini = numpy.zeros(self.nAtom_cor+1)
mid_ini(nAtom_cor) == [num |-> Zeros(nAtom_cor + 1), den |-> 1]

\* "check lenght of measured vector", "check if the isotopic tracer is present
\* in formula": the object with self.err decided and nothing else computed
Checked(v_measured, meta_form, el_cor, inc, nAtom_cor, correction_vector) ==
    [err |-> CheckErr(Len(v_measured.num), Len(correction_vector.num),
                      nAtom_cor, inc, el_cor, meta_form),
     inc |-> inc, nAtom_cor |-> nAtom_cor,
     m_size |-> Len(v_measured.num), c_size |-> Len(correction_vector.num),
     mid |-> <<>>, residuum |-> <<inf>>, enr_calc |-> NotSet,
     correction_matrix |-> <<>>, solution |-> NoVector, resi |-> NoVector,
     warnflag |-> -1, raised |-> ""]

\* correction_vector += [0.]*(m_size-c_size)
Padded(correction_vector, m_size) ==
    IF Len(correction_vector.num) < m_size
        THEN [correction_vector EXCEPT
                 !.num = @ \o Zeros(m_size - Len(correction_vector.num))]
        ELSE correction_vector

\* "create correction matrix"
WithMatrix(self, correction_vector, el_pur, el_cor, el_excluded) ==
    [self EXCEPT !.correction_matrix =
        CorrectionMatrix(Padded(correction_vector, self.m_size), el_pur, el_cor,
                         el_excluded, self.nAtom_cor, self.m_size)]

\* "perform correction"
WithSolution(self, v_measured) ==
    [self EXCEPT
        !.solution = IF fit.at = "mid_ini" THEN mid_ini(self.nAtom_cor)
                     ELSE fmin_l_bfgs_b(self.correction_matrix, v_measured),
        !.warnflag = fit.warnflag]

\* "calculate residuum"
WithResi(self, v_measured) ==
    [self EXCEPT !.resi =
        VecSub(v_measured, MatVec(self.correction_matrix, self.solution))]

\* "normalize mid and residuum"
Normalized(self, v_measured) ==
    [self EXCEPT !.mid = NormalizeMid(self.solution),
                 !.residuum = NormalizeResiduum(self.resi, v_measured)]

\* "calculate mean enrichment"
WithEnrichment(self, calc_mean_enr) ==
    IF ~calc_mean_enr THEN self
    ELSE IF self.nAtom_cor = 0 THEN [self EXCEPT !.raised = "ZeroDivisionError"]
    ELSE [self EXCEPT !.enr_calc = MeanEnrichment(self.mid, self.nAtom_cor)]

\* the correction carried out whatever self.err holds
CorrectedAnyway(self, v_measured, correction_vector, calc_mean_enr, el_excluded, el_pur, el_cor) ==
    WithEnrichment(
        Normalized(
            WithResi(
                WithSolution(
                    WithMatrix(self, correction_vector, el_pur, el_cor, el_excluded),
                    v_measured),
                v_measured),
            v_measured),
        calc_mean_enr)

\* "if everything is ok"
Corrected(self, v_measured, correction_vector, calc_mean_enr, el_excluded, el_pur, el_cor) ==
    IF self.err # "" THEN self
    ELSE WithEnrichment(
             Normalized(
                 WithResi(
                     WithSolution(
                         WithMatrix(self, correction_vector, el_pur, el_cor,
                                    el_excluded),
                         v_measured),
                     v_measured),
                 v_measured),
             calc_mean_enr)

\* process.__init__ from "calculate correction vector" on
Construct(v_measured, meta_form, calc_mean_enr, el_excluded, el_pur, el_cor, nAtom_cor, correction_vector) ==
    Corrected(Checked(v_measured, meta_form, el_cor,
                      Len(isotop[el_cor].num) - 1, nAtom_cor, correction_vector),
              v_measured, correction_vector, calc_mean_enr, el_excluded, el_pur,
              el_cor)

\* process.__init__ once the two formulas are parsed
Parsed(data_keys, v_measured, meta_form, calc_mean_enr, el_excluded, el_pur, el_cor, el_dict_meta, el_dict_der) ==
    Construct(v_measured, meta_form, calc_mean_enr, el_excluded, el_pur, el_cor,
              el_dict_meta[el_cor],
              calc_mdv(data_keys, el_dict_meta, el_dict_der, el_cor, el_excluded))

\* process(data_iso, v_measured, ...): the object constructed.  data_keys is
\* the order of data_iso.keys(); the vectors are exact
process(data_keys, v_measured, meta_form, der_form, calc_mean_enr, el_excluded, el_pur, el_cor) ==
    Parsed(data_keys, v_measured, meta_form, calc_mean_enr, el_excluded, el_pur,
           el_cor, parse_formula(data_keys, meta_form),
           parse_formula(data_keys, der_form))

-----------------------------------------------------------------------------
(* Text typed or loaded by the user, and float() on it.                    *)

\* float(s) for the texts that occur; any other text raises ValueError
FloatValue ==
    ("0" :> <<0, 1>>) @@ ("1" :> <<1, 1>>) @@ ("1.0" :> <<1, 1>>) @@
    ("2" :> <<2, 1>>) @@ ("-1" :> <<-1, 1>>) @@ ("-2" :> <<-2, 1>>) @@
    ("1.5" :> <<3, 2>>) @@ ("0.5" :> <<1, 2>>)

IsFloat(s) == s \in DOMAIN FloatValue

float(s) == FloatValue[s]

\* s.replace(",", ".")
DecimalPoint(s) == IF s = "1,5" THEN "1.5" ELSE s

RECURSIVE RatDenLCM(_)
RatDenLCM(qs) == IF qs = <<>> THEN 1 ELSE LCM(qs[1][2], RatDenLCM(Tail(qs)))

\* a list of floats as a vector
ToVector(qs) ==
    [num |-> [k \in DOMAIN qs |-> qs[k][1] * (RatDenLCM(qs) \div qs[k][2])],
     den |-> RatDenLCM(qs)]

\* the longest isotopic cluster of a measurement file
MaxPeaks == 4

Zero(L) == [k \in 1..L |-> "0"]

Unit(L, j) == [k \in 1..L |-> IF k = j THEN "1" ELSE "0"]

Pair(L, a, b) == [k \in 1..L |-> IF k = 1 THEN a ELSE IF k = 2 THEN b ELSE "0"]

\* the single-measurement files the user can load, as their lines
SingleFiles ==
    UNION {{Zero(L), Unit(L, 1), Unit(L, L)} : L \in 1..MaxPeaks}
    \cup {Pair(L, a, "-1") : L \in 2..MaxPeaks, a \in {"1", "2"}}
    \cup {Pair(L, "1", "-2") : L \in 2..MaxPeaks}
    \cup {<<"1,5", "", "0", "1">>, <<"1", "abc", "0">>}

\* the texts of the formula entries
FormulaTexts ==
    {<<>>, <<"C">>, <<"C", "2">>, <<"C", "C", "l">>, <<"C", "0">>,
     <<"C", "2", "X">>}

DerivativeTexts == {<<>>, <<"C">>}

\* the texts of the purity entry, split at ';'
PurityTexts ==
    {<<"0", "1.0">>, <<"0", "0", "1.0">>, <<"1", "1.0">>, <<"0", "x">>,
     <<"-1", "2">>}

Tracers == {"C", "Cl"}

\* the characters typed into the formula entry one at a time, and the longest
\* formula typed that way
FormulaChars == {"C", "l", "X", "2", " "}

MaxFormula == 3

-----------------------------------------------------------------------------
(* The databases load_db returns from 'Metabolites.dat' and                *)
(* 'Derivatives.dat', and the multi-measurement files.                     *)

meta_list == <<"A", "B", "N">>

dict_form_meta == [A |-> <<"C", "2">>, B |-> <<"C">>, N |-> <<"C", "0">>]

der_list == <<"D">>

dict_form_der == [D |-> <<"C">>]

InList(x, l) == \E k \in DOMAIN l : l[k] = x

\* s.strip(' ')
strip(s) == IF s = "A " THEN "A" ELSE s

\* '   ' + s
Indent(s) ==
    CASE s = "A" -> "   A" [] s = "B" -> "   B" [] s = "N" -> "   N"
      [] s = "Z" -> "   Z" [] OTHER -> "   "

\* the rows of a cluster after its first: no sample, no metabolite
More(values) == [k \in DOMAIN values |-> <<"", "", "", values[k]>>]

\* the multi-measurement files the user can load, as the tab-separated fields
\* of their lines
MultiFile1 ==
    <<<<"S1", "A ", "", "1">>>> \o More(<<"0", "0">>)
    \o <<<<"", "B", "D", "0">>>> \o More(<<"0", "0">>)
    \o <<<<"S2", "Z", "", "1">>>>
    \o <<<<"", "A", "", "2">>>> \o More(<<"-1", "0">>)
    \o <<<<"", "A", "", "2">>>> \o More(<<"0", "0">>)
    \o <<<<"", "A", "", "1">>>> \o More(<<"0", "0">>)
    \o <<<<"", "A", "", "0">>>> \o More(<<"1", "0">>)
    \o <<<<"", "B", "D", "0.5">>>> \o More(<<"0.5", "0">>)
    \o <<<<"", "B", "D", "0">>>> \o More(<<"0.5", "0.5">>)
    \o <<<<"S1", "A", "Y", "1">>>>
    \o <<<<"", "B", "", "0">>>> \o More(<<"1,5">>)
    \o <<<<"S3", "N", "", "1">>>>
    \o <<<<"", "B", "", "1">>>> \o More(<<"0">>)

MultiFile2 ==
    <<<<"S1", "A", "", "1">>>> \o More(<<"0", "0">>)
    \o <<<<"S2", "B", "", "abc">>>>
    \o <<<<"", "A", "", "1">>>>

MultiFile3 == <<<<"", "A", "", "1">>, <<"S1", "A", "", "1">>>>

MultiFiles == [res1 |-> MultiFile1, res2 |-> MultiFile2, res3 |-> MultiFile3]

\* a file whose samples come back, with and without a metabolite name
MultiFile4 ==
    <<<<"S1", "A ", "", "1">>>> \o More(<<"2">>)
    \o <<<<"S2", "B", "D", "1">>>>
    \o <<<<"S1", "", "", "1,5">>>>
    \o <<<<"", "B", "", "0">>>>
    \o <<<<"S2", "", "", "2">>>>
    \o <<<<"", "A", "", "-1">>>> \o More(<<"0", "0.5">>)

\* every multi-measurement file of the model
LoadFiles == [res4 |-> MultiFile4] @@ MultiFiles

-----------------------------------------------------------------------------
(* gui.cmd_parse_single                                                    *)

WarnNegative  == "Some peaks of the isotopic cluster have negative intensities."
ErrStructure  == "Incorrect file structure"
ErrPurityLen  == "The lenght of purity vector must be"
ErrPuritySum  == "The sum of purity vector must be 1."
ErrPurity     == "Check purity vector."
ErrNoFormula  == "No correction formula."
ErrNoData     == "Please load a data file."

\* a handler that showed the message boxes msg and did nothing else visible;
\* edit: what it appended to self.edit; output: what it wrote to the result
\* file; errors: the three error lists of the report; lines: what
\* txt.readlines() gave the handler of a single-measurement file
Report(handler, msg) ==
    [handler |-> handler, msg |-> msg, calls |-> <<>>, edit |-> <<>>,
     output |-> <<>>, errors |-> <<>>, raised |-> "", lines |-> <<>>]

Quiet == Report("", <<>>)

\* a loader that stops at a line that is no number and leaves the list box
\* as it is, the line included
RECURSIVE ReadPeaksKept(_, _, _, _)
ReadPeaksKept(lines, i, items, msg) ==
    IF i > Len(lines) THEN [items |-> items, msg |-> msg]
    ELSE LET peak == DecimalPoint(lines[i])
         IN  IF peak = "" THEN ReadPeaksKept(lines, i + 1, items, msg)
             ELSE IF ~IsFloat(peak)
                 THEN [items |-> Append(items, peak), msg |-> Append(msg, ErrStructure)]
             ELSE IF RatLe(<<0, 1>>, float(peak))
                 THEN ReadPeaksKept(lines, i + 1, Append(items, peak), msg)
             ELSE ReadPeaksKept(lines, i + 1, Append(items, peak),
                                IF WarnNegative \in {msg[k] : k \in DOMAIN msg}
                                    THEN msg ELSE Append(msg, WarnNegative))

\* a loader that warns of the negative peaks and leaves them out of the list
RECURSIVE ReadPeaksNonNegative(_, _, _, _)
ReadPeaksNonNegative(lines, i, items, msg) ==
    IF i > Len(lines) THEN [items |-> items, msg |-> msg]
    ELSE LET peak == DecimalPoint(lines[i])
         IN  IF peak = "" THEN ReadPeaksNonNegative(lines, i + 1, items, msg)
             ELSE IF ~IsFloat(peak)
                 THEN [items |-> <<>>, msg |-> Append(msg, ErrStructure)]
             ELSE IF RatLe(<<0, 1>>, float(peak))
                 THEN ReadPeaksNonNegative(lines, i + 1, Append(items, peak), msg)
             ELSE ReadPeaksNonNegative(lines, i + 1, items,
                                       IF WarnNegative \in {msg[k] : k \in DOMAIN msg}
                                           THEN msg ELSE Append(msg, WarnNegative))

\* the loop over txt.readlines(): the list box and the message boxes after
\* line i and the ones before it
RECURSIVE ReadPeaks(_, _, _, _)
ReadPeaks(lines, i, items, msg) ==
    IF i > Len(lines) THEN [items |-> items, msg |-> msg]
    ELSE LET peak == DecimalPoint(lines[i])
         IN  IF peak = "" THEN ReadPeaks(lines, i + 1, items, msg)
             ELSE IF ~IsFloat(peak)
                 THEN [items |-> <<>>, msg |-> Append(msg, ErrStructure)]
             ELSE IF RatLe(<<0, 1>>, float(peak))
                 THEN ReadPeaks(lines, i + 1, Append(items, peak), msg)
             ELSE ReadPeaks(lines, i + 1, Append(items, peak),
                            IF WarnNegative \in {msg[k] : k \in DOMAIN msg}
                                THEN msg ELSE Append(msg, WarnNegative))

\* the list box and the message boxes after each file is read
PeaksRead == [lines \in SingleFiles |-> ReadPeaks(lines, 1, <<>>, <<>>)]

cmd_parse_single(lines) ==
    LET r == PeaksRead[lines]
    IN  /\ input_file' = ""
        /\ liste' = r.items
        /\ last' = [Report("cmd_parse_single", r.msg) EXCEPT !.lines = lines]
        /\ UNCHANGED <<keys, fit, cb_el_cor, cb_el_excluded, cb_mean_enr, entry_el_pur,
                       entry_form_meta, entry_form_der, dict_meta, sample_list>>

\* the file dialog is closed without a file
cmd_parse_single_cancel ==
    /\ last' = Report("cmd_parse_single", <<>>)
    /\ UNCHANGED <<keys, fit, cb_el_cor, cb_el_excluded, cb_mean_enr, entry_el_pur,
                   entry_form_meta, entry_form_der, input_file, liste,
                   dict_meta, sample_list>>

-----------------------------------------------------------------------------
(* create_metabolite and gui.cmd_parse_multiple                            *)

\* a record created without the intensity of its first row
create_metabolite_empty(meta_name, der_name, p) ==
    [meta_name |-> meta_name, der_name |-> der_name, v_mes |-> <<>>]

create_metabolite(meta_name, der_name, p) ==
    [meta_name |-> meta_name, der_name |-> der_name, v_mes |-> <<p>>]

\* self.dict_meta.get(sample, [])
Get(d, sample) == IF sample \in DOMAIN d THEN d[sample] ELSE <<>>

\* d[sample] = value
Put(d, sample, value) ==
    [k \in DOMAIN d \cup {sample} |-> IF k = sample THEN value ELSE d[k]]

\* the loop over txt.readlines(), from line i on; sample = "" while the local
\* `sample` is not bound.  ok is FALSE when a line raised an exception.
RECURSIVE ReadRows(_, _, _, _, _)
ReadRows(rows, i, sample, d, sl) ==
    IF i > Len(rows) THEN [ok |-> TRUE, dict_meta |-> d, sample_list |-> sl]
    ELSE LET data == rows[i]
             named == data[1] # ""
             sample1 == IF named THEN data[1] ELSE sample
             d1 == IF named THEN Put(d, sample1, Get(d, sample1)) ELSE d
             sl1 == IF named /\ ~InList(sample1, sl) THEN Append(sl, sample1) ELSE sl
             failed == [ok |-> FALSE, dict_meta |-> d1, sample_list |-> sl1]
         IN  IF Len(data) < 2 THEN failed
             ELSE IF data[2] # ""
                 THEN IF \/ Len(data) < 4
                         \/ ~IsFloat(DecimalPoint(data[4]))
                         \/ sample1 = ""
                          THEN failed
                      ELSE ReadRows(rows, i + 1, sample1,
                               Put(d1, sample1,
                                   Append(d1[sample1],
                                          create_metabolite(strip(data[2]), strip(data[3]),
                                                            float(DecimalPoint(data[4]))))),
                               sl1)
             ELSE IF \/ sample1 = ""
                     \/ d1[sample1] = <<>>
                     \/ Len(data) < 4
                     \/ ~IsFloat(DecimalPoint(data[4]))
                      THEN failed
                  ELSE LET n == Len(d1[sample1])
                       IN  ReadRows(rows, i + 1, sample1,
                               Put(d1, sample1,
                                   [d1[sample1] EXCEPT ![n].v_mes =
                                       Append(@, float(DecimalPoint(data[4])))]),
                               sl1)

\* the items appended to the list box once the file is read
RECURSIVE SampleItems(_, _, _)
SampleItems(d, sl, i) ==
    IF i > Len(sl) THEN <<>>
    ELSE <<sl[i]>> \o [m \in DOMAIN d[sl[i]] |-> Indent(d[sl[i]][m].meta_name)]
             \o SampleItems(d, sl, i + 1)

\* dict_meta and sample_list after each file is read
RowsRead == [path \in DOMAIN LoadFiles |-> ReadRows(LoadFiles[path], 1, "", <<>>, <<>>)]

cmd_parse_multiple(path) ==
    LET r == RowsRead[path]
    IN  /\ dict_meta' = r.dict_meta
        /\ sample_list' = r.sample_list
        /\ input_file' = IF r.ok THEN path ELSE ""
        /\ liste' = IF r.ok THEN SampleItems(r.dict_meta, r.sample_list, 1) ELSE <<>>
        /\ last' = Report("cmd_parse_multiple",
                          IF r.ok THEN <<>> ELSE <<ErrStructure>>)
        /\ UNCHANGED <<keys, fit, cb_el_cor, cb_el_excluded, cb_mean_enr, entry_el_pur,
                       entry_form_meta, entry_form_der>>

\* the file dialog is closed without a file
cmd_parse_multiple_cancel ==
    /\ last' = Report("cmd_parse_multiple", <<>>)
    /\ UNCHANGED <<keys, fit, cb_el_cor, cb_el_excluded, cb_mean_enr, entry_el_pur,
                   entry_form_meta, entry_form_der, input_file, liste,
                   dict_meta, sample_list>>

-----------------------------------------------------------------------------
(* gui.cmd_correction                                                      *)

\* round(q, digits) for q >= 0
round(q, digits) ==
    LET scale == 10 ^ digits
    IN  Rat((2 * q[1] * scale + q[2]) \div (2 * q[2]), scale)

\* the purity entry read without any test of its length or sum
CheckPurityUnchecked(text, el_cor) ==
    IF \E k \in DOMAIN text : ~IsFloat(text[k])
        THEN [error |-> 1, msg |-> <<ErrPurity>>, el_pur |-> <<>>]
    ELSE [error |-> 0, msg |-> <<>>,
          el_pur |-> [k \in DOMAIN text |-> float(text[k])]]

\* the purity check without the test of the sum
CheckPurityAnySum(text, el_cor) ==
    IF \E k \in DOMAIN text : ~IsFloat(text[k])
        THEN [error |-> 1, msg |-> <<ErrPurity>>, el_pur |-> <<>>]
    ELSE LET el_pur == [k \in DOMAIN text |-> float(text[k])]
         IN  IF Len(el_pur) # Len(isotop[el_cor].num)
                 THEN [error |-> 1, msg |-> <<ErrPurityLen>>, el_pur |-> el_pur]
             ELSE [error |-> 0, msg |-> <<>>, el_pur |-> el_pur]

\* "check purity vector": the message box, if any, and el_pur
CheckPurity(text, el_cor) ==
    IF \E k \in DOMAIN text : ~IsFloat(text[k])
        THEN [error |-> 1, msg |-> <<ErrPurity>>, el_pur |-> <<>>]
    ELSE LET el_pur == [k \in DOMAIN text |-> float(text[k])]
         IN  IF Len(el_pur) # Len(isotop[el_cor].num)
                 THEN [error |-> 1, msg |-> <<ErrPurityLen>>, el_pur |-> el_pur]
             ELSE IF RatSum(el_pur) # <<1, 1>>
                 THEN [error |-> 1, msg |-> <<ErrPuritySum>>, el_pur |-> el_pur]
             ELSE [error |-> 0, msg |-> <<>>, el_pur |-> el_pur]

\* one call of process, with the arguments it was given
Call(data_keys, v_mes, form_meta, form_der, calculate_enr, el_excluded, el_pur, el_cor) ==
    [v_measured |-> v_mes, meta_form |-> form_meta, der_form |-> form_der,
     calc_mean_enr |-> calculate_enr, el_excluded |-> el_excluded,
     el_pur |-> el_pur, el_cor |-> el_cor,
     self |-> process(data_keys, ToVector(v_mes), form_meta, form_der,
                      calculate_enr, el_excluded, ToVector(el_pur), el_cor)]

\* the text appended to self.edit for a result without error
Display(result, calculate_enr) ==
    [rows |-> [p \in DOMAIN result.mid |->
                  [index |-> p - 1, proportion |-> round(result.mid[p], 5),
                   residuum |-> result.residuum[p]]],
     enrichment |-> IF calculate_enr THEN round(result.enr_calc, 4) ELSE NotSet]

\* what Process does with the object a single correction returned
ShowResult(call, calculate_enr) ==
    IF call.self.raised # ""
        THEN [Report("cmd_correction", <<>>) EXCEPT
                 !.calls = <<call>>, !.raised = call.self.raised]
    ELSE IF call.self.err # ""
        THEN [Report("cmd_correction", <<call.self.err>>) EXCEPT !.calls = <<call>>]
    ELSE IF call.self.mid = <<>>
        THEN [Report("cmd_correction", <<>>) EXCEPT !.calls = <<call>>]
    ELSE IF Len(call.self.residuum) < Len(call.self.mid)
        THEN [Report("cmd_correction", <<>>) EXCEPT
                 !.calls = <<call>>, !.raised = "IndexError"]
    ELSE [Report("cmd_correction", <<>>) EXCEPT
             !.calls = <<call>>, !.edit = <<Display(call.self, calculate_enr)>>]

\* "correction of a single measurement"
CorrectSingle(el_cor, el_excluded, calculate_enr, el_pur) ==
    IF entry_form_meta = <<>> THEN Report("cmd_correction", <<ErrNoFormula>>)
    ELSE IF liste = <<>> THEN Report("cmd_correction", <<ErrNoData>>)
    ELSE IF \E k \in DOMAIN liste : ~IsFloat(liste[k])
        THEN [Report("cmd_correction", <<>>) EXCEPT !.raised = "ValueError"]
    ELSE ShowResult(Call(keys, [k \in DOMAIN liste |-> float(liste[k])],
                         entry_form_meta, entry_form_der, calculate_enr,
                         el_excluded, el_pur, el_cor),
                    calculate_enr)

\* the name under which a derivative is listed in the report
DerName(metabolite) ==
    IF metabolite.der_name = "" THEN "none" ELSE metabolite.der_name

\* a line of the output file that holds a message
Line(kind, sample, metabolite) ==
    [kind |-> kind, sample |-> sample, metabolite |-> metabolite.meta_name]

\* the lines of the output file for the distribution of one metabolite
Rows(sample, metabolite, result, calculate_enr) ==
    [i \in DOMAIN result.mid |->
        [kind |-> "row", sample |-> sample, metabolite |-> metabolite.meta_name,
         index |-> i - 1, cluster |-> metabolite.v_mes[i],
         proportion |-> round(result.mid[i], 5),
         residuum |-> result.residuum[i],
         enrichment |-> IF i = 1 /\ calculate_enr
                            THEN round(result.enr_calc, 4) ELSE NotSet]]

\* "save results": what the batch loop writes for one call of process
SaveResult(acc, sample, metabolite, call, calculate_enr) ==
    IF call.self.raised # ""
        THEN [acc EXCEPT !.calls = Append(@, call), !.raised = call.self.raised]
    ELSE IF call.self.err # ""
        THEN [acc EXCEPT
                 !.calls = Append(@, call),
                 !.errors[3] =
                     IF InList(<<metabolite.meta_name, DerName(metabolite)>>, @)
                         THEN @
                         ELSE Append(@, <<metabolite.meta_name, DerName(metabolite)>>),
                 !.output = Append(@, Line(call.self.err, sample, metabolite))]
    ELSE IF RatSum(metabolite.v_mes) # <<0, 1>>
        THEN [acc EXCEPT
                 !.calls = Append(@, call),
                 !.output = @ \o Rows(sample, metabolite, call.self, calculate_enr)]
    ELSE [acc EXCEPT !.calls = Append(@, call),
                     !.output = Append(@, Line("No data.", sample, metabolite))]

\* the batch loop over a process that keeps state between its calls: only
\* the first call of a batch corrects for the natural abundance of the tracer
CorrectOneShared(acc, sample, metabolite, el_cor, el_excluded, calculate_enr, el_pur) ==
    LET form_der == IF metabolite.der_name = "" THEN <<>>
                    ELSE dict_form_der[metabolite.der_name]
        given == Call(keys, metabolite.v_mes, dict_form_meta[metabolite.meta_name],
                      form_der, calculate_enr, el_excluded, el_pur, el_cor)
        kept == Call(keys, metabolite.v_mes, dict_form_meta[metabolite.meta_name],
                     form_der, calculate_enr, el_cor, el_pur, el_cor)
    IN  IF ~InList(metabolite.meta_name, meta_list)
            \/ (metabolite.der_name # "" /\ ~InList(metabolite.der_name, der_list))
            THEN [acc EXCEPT
                     !.output = Append(@, Line("not found", sample, metabolite))]
        ELSE SaveResult(acc, sample, metabolite,
                        IF acc.calls = <<>> THEN given
                        ELSE [given EXCEPT !.self = kept.self],
                        calculate_enr)

\* what the batch loop writes for one metabolite, added to acc
CorrectOne(acc, sample, metabolite, el_cor, el_excluded, calculate_enr, el_pur) ==
    IF ~InList(metabolite.meta_name, meta_list)
        THEN [acc EXCEPT
                 !.errors[1] = IF InList(metabolite.meta_name, @) THEN @
                               ELSE Append(@, metabolite.meta_name),
                 !.output = Append(@, Line("metabolite not found", sample, metabolite))]
    ELSE IF metabolite.der_name # "" /\ ~InList(metabolite.der_name, der_list)
        THEN [acc EXCEPT
                 !.errors[2] = IF InList(metabolite.der_name, @) THEN @
                               ELSE Append(@, metabolite.der_name),
                 !.output = Append(@, Line("derivative not found", sample, metabolite))]
    ELSE SaveResult(acc, sample, metabolite,
                    Call(keys, metabolite.v_mes, dict_form_meta[metabolite.meta_name],
                         IF metabolite.der_name = "" THEN <<>>
                         ELSE dict_form_der[metabolite.der_name],
                         calculate_enr, el_excluded, el_pur, el_cor),
                    calculate_enr)

\* the loop over self.dict_meta[sample], from the j-th metabolite on; it ends
\* where process raises an exception
RECURSIVE CorrectSample(_, _, _, _, _, _, _)
CorrectSample(acc, sample, j, el_cor, el_excluded, calculate_enr, el_pur) ==
    IF j > Len(dict_meta[sample]) \/ acc.raised # "" THEN acc
    ELSE CorrectSample(CorrectOne(acc, sample, dict_meta[sample][j], el_cor,
                                  el_excluded, calculate_enr, el_pur),
                       sample, j + 1, el_cor, el_excluded, calculate_enr, el_pur)

\* "correction of samples/metabolites dataset": the loop over
\* self.sample_list, from the i-th sample on
RECURSIVE CorrectAll(_, _, _, _, _, _)
CorrectAll(acc, i, el_cor, el_excluded, calculate_enr, el_pur) ==
    IF i > Len(sample_list) \/ acc.raised # "" THEN acc
    ELSE CorrectAll(CorrectSample(acc, sample_list[i], 1, el_cor, el_excluded,
                                  calculate_enr, el_pur),
                    i + 1, el_cor, el_excluded, calculate_enr, el_pur)

CorrectBatch(el_cor, el_excluded, calculate_enr, el_pur) ==
    CorrectAll([Report("cmd_correction", <<>>) EXCEPT !.errors = <<<<>>, <<>>, <<>>>>],
               1, el_cor, el_excluded, calculate_enr, el_pur)

cmd_correction ==
    LET el_cor == cb_el_cor
        el_excluded == IF cb_el_excluded = "no" THEN el_cor ELSE ""
        calculate_enr == (cb_mean_enr = "yes")
        purity == CheckPurity(entry_el_pur, el_cor)
    IN  /\ last' = IF purity.error # 0
                       THEN Report("cmd_correction", purity.msg)
                   ELSE IF input_file = ""
                       THEN CorrectSingle(el_cor, el_excluded, calculate_enr,
                                          purity.el_pur)
                   ELSE CorrectBatch(el_cor, el_excluded, calculate_enr,
                                     purity.el_pur)
        /\ UNCHANGED <<keys, fit, cb_el_cor, cb_el_excluded, cb_mean_enr, entry_el_pur,
                       entry_form_meta, entry_form_der, input_file, liste,
                       dict_meta, sample_list>>

-----------------------------------------------------------------------------
(* The widgets the user edits.                                             *)

\* gui.modif_el_cor: a tracer is selected in the combo box
modif_el_cor(el) ==
    /\ cb_el_cor' = el
    /\ entry_el_pur' = [k \in 1..Len(isotop[el].num) |->
                           IF k < Len(isotop[el].num) THEN "0" ELSE "1.0"]
    /\ last' = Quiet
    /\ UNCHANGED <<keys, fit, cb_el_excluded, cb_mean_enr, entry_form_meta,
                   entry_form_der, input_file, liste, dict_meta, sample_list>>

\* the purity entry is edited
edit_el_pur(text) ==
    /\ entry_el_pur' = text
    /\ last' = Quiet
    /\ UNCHANGED <<keys, fit, cb_el_cor, cb_el_excluded, cb_mean_enr, entry_form_meta,
                   entry_form_der, input_file, liste, dict_meta, sample_list>>

\* the metabolite formula entry is edited (gui.modif_form_meta only moves the
\* selection of the list of metabolites)
modif_form_meta(text) ==
    /\ entry_form_meta' = text
    /\ last' = Quiet
    /\ UNCHANGED <<keys, fit, cb_el_cor, cb_el_excluded, cb_mean_enr, entry_el_pur,
                   entry_form_der, input_file, liste, dict_meta, sample_list>>

\* the derivative formula entry is edited (gui.modif_form_der only moves the
\* selection of the combo box of derivatives)
modif_form_der(text) ==
    /\ entry_form_der' = text
    /\ last' = Quiet
    /\ UNCHANGED <<keys, fit, cb_el_cor, cb_el_excluded, cb_mean_enr, entry_el_pur,
                   entry_form_meta, input_file, liste, dict_meta, sample_list>>

\* gui.select_meta: a metabolite is selected in the list of metabolites
select_meta(selection) ==
    /\ entry_form_meta' = dict_form_meta[meta_list[selection]]
    /\ last' = Quiet
    /\ UNCHANGED <<keys, fit, cb_el_cor, cb_el_excluded, cb_mean_enr, entry_el_pur,
                   entry_form_der, input_file, liste, dict_meta, sample_list>>

\* gui.select_der: a choice is made in the combo box of derivatives
select_der(der_choice) ==
    /\ entry_form_der' = IF der_choice \in {"none", "custom..."} THEN <<>>
                         ELSE dict_form_der[der_choice]
    /\ last' = Quiet
    /\ UNCHANGED <<keys, fit, cb_el_cor, cb_el_excluded, cb_mean_enr, entry_el_pur,
                   entry_form_meta, input_file, liste, dict_meta, sample_list>>

\* "nat. ab. of the tracer" is set to yes or no
select_el_excluded(value) ==
    /\ cb_el_excluded' = value
    /\ last' = Quiet
    /\ UNCHANGED <<keys, fit, cb_el_cor, cb_mean_enr, entry_el_pur, entry_form_meta,
                   entry_form_der, input_file, liste, dict_meta, sample_list>>

\* "Calc. mean enrichment" is set to yes or no
select_mean_enr(value) ==
    /\ cb_mean_enr' = value
    /\ last' = Quiet
    /\ UNCHANGED <<keys, fit, cb_el_cor, cb_el_excluded, entry_el_pur, entry_form_meta,
                   entry_form_der, input_file, liste, dict_meta, sample_list>>

\* a character typed at the end of the metabolite formula (EVT_TEXT runs
\* gui.modif_form_meta, which changes the selection of the list box only)
type_form_meta(ch) ==
    /\ Len(entry_form_meta) < MaxFormula
    /\ entry_form_meta' = Append(entry_form_meta, ch)
    /\ last' = Quiet
    /\ UNCHANGED <<keys, fit, cb_el_cor, cb_el_excluded, cb_mean_enr, entry_el_pur,
                   entry_form_der, input_file, liste, dict_meta, sample_list>>

\* process.__init__, "parse elemental formulas", on its own: el_dict_meta for
\* the text of the formula entry
parse_entry ==
    /\ last' = [Report("parse_formula", <<>>) EXCEPT
                   !.calls = <<[meta_form |-> entry_form_meta,
                                el_dict |-> parse_formula(keys, entry_form_meta)]>>]
    /\ UNCHANGED <<keys, fit, cb_el_cor, cb_el_excluded, cb_mean_enr, entry_el_pur,
                   entry_form_meta, entry_form_der, input_file, liste,
                   dict_meta, sample_list>>

-----------------------------------------------------------------------------
\* gui.__init__: the widgets as created
Init ==
    /\ keys \in KeyOrders
    /\ cb_el_cor = "C"
    /\ cb_el_excluded = "yes"
    /\ cb_mean_enr = "yes"
    /\ entry_el_pur = <<"0", "1.0">>
    /\ entry_form_meta = <<>>
    /\ entry_form_der = <<>>
    /\ input_file = ""
    /\ liste = <<>>
    /\ dict_meta = <<>>
    /\ sample_list = <<>>
    /\ last = Quiet
    /\ fit = Converged

Next ==
    \/ \E lines \in SingleFiles : cmd_parse_single(lines)
    \/ cmd_parse_single_cancel
    \/ \E path \in DOMAIN MultiFiles : cmd_parse_multiple(path)
    \/ cmd_parse_multiple_cancel
    \/ cmd_correction
    \/ \E selection \in DOMAIN meta_list : select_meta(selection)
    \/ \E der_choice \in {"none", "custom..."} \cup {der_list[k] : k \in DOMAIN der_list} :
           select_der(der_choice)
    \/ \E el \in Tracers : modif_el_cor(el)
    \/ \E text \in PurityTexts : edit_el_pur(text)
    \/ \E text \in FormulaTexts : modif_form_meta(text)
    \/ \E text \in DerivativeTexts : modif_form_der(text)
    \/ \E value \in {"yes", "no"} : select_el_excluded(value)
    \/ \E value \in {"yes", "no"} : select_mean_enr(value)


-----------------------------------------------------------------------------
(* Properties.  A call is a call of process made by the handler that ran   *)
(* last, with its arguments and the object (or exception) it left.         *)

Calls == {last.calls[i] : i \in DOMAIN last.calls}

\* the measured vector of a call
Measured(c) == ToVector(c.v_measured)

\* Delta: the number of isotopes of the tracer, less one
Delta(c) == Len(isotop[c.el_cor].num) - 1

\* the call went through: no error message, no exception
Completed(c) == c.self.err = "" /\ c.self.raised = ""

\* 1 + the mass shifts of the atoms that make the MDV: the metabolite's atoms
\* other than the tracer's, and all atoms of the derivative
MdvLength(c) ==
    LET meta == parse_formula(keys, c.meta_form)
        der  == parse_formula(keys, c.der_form)
        shift(el) == Len(isotop[el].num) - 1
        other == CHOOSE el \in Elements : el # c.el_cor
    IN  1 + meta[other] * shift(other)
          + der[other] * shift(other) + der[c.el_cor] * shift(c.el_cor)

\* C1: with n >= 1 tracer atoms parsed from the formula, a measured cluster
\* shorter than n*Delta + 1 gets the "too low" error and no isotopologue
\* distribution
Thm_C1_MeasurementTooShort ==
    \A c \in Calls :
        (c.self.nAtom_cor >= 1
            /\ Len(c.v_measured) < c.self.nAtom_cor * Delta(c) + 1)
        => /\ c.self.err = ErrTooShort
           /\ c.self.mid = <<>>
           /\ c.self.raised = ""

\* n = 2, Delta = 1 and 2 measured peaks: one peak short
Wit_C1_MeasurementTooShort ==
    \E c \in Calls :
        /\ c.self.nAtom_cor = 2 /\ Delta(c) = 1 /\ Len(c.v_measured) = 2
        /\ c.self.err = ErrTooShort

\* C2: with n >= 1 tracer atoms, a cluster longer than len(MDV) + n*Delta gets
\* the "matrix size" error and no distribution; a length between n*Delta + 1
\* and len(MDV) + n*Delta gets neither length error
Thm_C2_FragmentTooSmall ==
    \A c \in Calls :
        c.self.nAtom_cor >= 1 =>
            LET M  == Len(c.v_measured)
                nD == c.self.nAtom_cor * Delta(c)
            IN  /\ M > MdvLength(c) + nD
                    => (c.self.err = ErrTooSmall /\ c.self.mid = <<>>
                        /\ c.self.raised = "")
                /\ (nD + 1 <= M /\ M <= MdvLength(c) + nD)
                    => c.self.err \notin {ErrTooShort, ErrTooSmall}

\* a cluster too long for a formula whose MDV has more than one entry
Wit_C2_FragmentTooSmall ==
    \E c \in Calls :
        /\ c.self.nAtom_cor >= 1 /\ MdvLength(c) > 1
        /\ Len(c.v_measured) > MdvLength(c) + c.self.nAtom_cor * Delta(c)
        /\ c.self.err = ErrTooSmall

\* C3 (as claimed): a formula whose parsed tracer count is not at least 1 gets
\* the tracer-absent error, so no correction runs with n = 0
Claim_C3_TracerAbsent ==
    \A c \in Calls :
        parse_formula(keys, c.meta_form)[c.el_cor] < 1 => c.self.err = ErrNoTracer

Claim_C5_ResultLengths ==
    \A c \in Calls :
        Completed(c)
        => /\ Len(c.self.mid) = c.self.nAtom_cor + 1
           /\ Len(c.self.residuum) = Len(c.v_measured)

\* C6 (as claimed): when the raw solution sums to 0 the distribution returned
\* is the zero vector of length n+1 and no mean enrichment is returned
Claim_C6_ZeroSignal ==
    \A c \in Calls :
        (Completed(c) /\ SeqSum(c.self.solution.num) = 0)
        => /\ c.self.mid = [i \in 1..(c.self.nAtom_cor + 1) |-> <<0, 1>>]
           /\ c.self.enr_calc = NotSet

\* e = v - A.x of a completed call, recomputed from the matrix and the solution
Residual(c) ==
    Floats(VecSub(Measured(c), MatVec(c.self.correction_matrix, c.self.solution)))

\* C7 (as claimed): the residuum is e_i / sum(v) when sum(v) > 0 and e_i
\* otherwise; for an all-zero measured vector it is the zero vector of length M
Claim_C7_Residuum ==
    \A c \in Calls :
        Completed(c) =>
            LET sum_v == Rat(SeqSum(Measured(c).num), Measured(c).den)
                e == Residual(c)
            IN  /\ sum_v[1] > 0
                    => c.self.residuum = [k \in DOMAIN e |-> RatDiv(e[k], sum_v)]
                /\ sum_v[1] <= 0 => c.self.residuum = e
                /\ (\A k \in DOMAIN c.v_measured : c.v_measured[k] = <<0, 1>>)
                    => c.self.residuum = [k \in DOMAIN c.v_measured |-> <<0, 1>>]

PurityInvalid ==
    /\ \A k \in DOMAIN entry_el_pur : IsFloat(entry_el_pur[k])
    /\ \/ Len(entry_el_pur) # Len(isotop[cb_el_cor].num)
       \/ RatSum([k \in DOMAIN entry_el_pur |-> float(entry_el_pur[k])]) # <<1, 1>>

\* C9: a correction requested with a purity vector of the wrong length, or
\* whose entries do not sum to 1, shows a purity error, calls process for no
\* metabolite and writes no result
Thm_C9_PurityRejected ==
    (last.handler = "cmd_correction" /\ PurityInvalid)
    => /\ last.msg \in {<<ErrPurityLen>>, <<ErrPuritySum>>}
       /\ last.calls = <<>>
       /\ last.edit = <<>>
       /\ last.output = <<>>

\* a purity vector of the right length whose entries sum to 2, with a formula
\* and a cluster loaded
Wit_C9_PurityRejected ==
    /\ last.handler = "cmd_correction" /\ PurityInvalid
    /\ Len(entry_el_pur) = Len(isotop[cb_el_cor].num)
    /\ last.msg = <<ErrPuritySum>>
    /\ entry_form_meta # <<>> /\ liste # <<>>

\* the number of characters of f that re.findall makes part of a match
RECURSIVE Consumed(_)
Consumed(ms) ==
    IF ms = <<>> THEN 0
    ELSE Len(ElChars[ms[1].el]) + Len(ms[1].n) + Consumed(Tail(ms))

\* C10 (as claimed): a formula with text that is no element of the table and
\* no count makes the parse fail, with an unknown-element or malformed-formula
\* error; no part of the formula is ignored
Claim_C10_UnknownElement ==
    \A c \in Calls :
        Consumed(findall(keys, c.meta_form, 1)) < Len(c.meta_form)
        => c.self.raised \in {"UnknownElement", "MalformedFormula"}

-----------------------------------------------------------------------------
(* parse_formula as a function of the text typed: every text of at most    *)
(* MaxFormula characters of FormulaChars, under every order of the keys.   *)

NextParse ==
    \/ \E ch \in FormulaChars : type_form_meta(ch)
    \/ parse_entry

SpecParse == Init /\ [][NextParse]_vars

\* the formulas parse_entry was applied to, with the counts returned
Parses ==
    IF last.handler = "parse_formula"
        THEN {last.calls[i] : i \in DOMAIN last.calls} ELSE {}

IsUpper(c) == c \in {"C", "X"}

IsLower(c) == c = "l"

\* the tokens of the grammar from position i on: an upper-case letter, an
\* optional lower-case letter, an optional decimal integer; ok is FALSE for a
\* character that starts no token
RECURSIVE Tokens(_, _)
Tokens(f, i) ==
    IF i > Len(f) THEN <<>>
    ELSE IF ~IsUpper(f[i])
        THEN <<[sym |-> <<>>, n |-> <<>>, ok |-> FALSE]>> \o Tokens(f, i + 1)
    ELSE LET j == IF i < Len(f) /\ IsLower(f[i + 1]) THEN i + 2 ELSE i + 1
         IN  <<[sym |-> SubSeq(f, i, j - 1),
                n |-> SubSeq(f, j, DigitsEnd(f, j) - 1), ok |-> TRUE]>>
                 \o Tokens(f, DigitsEnd(f, j))

\* f is a formula of the grammar
WellFormed(f) == \A k \in DOMAIN Tokens(f, 1) : Tokens(f, 1)[k].ok

\* the sum, over the tokens with symbol sym, of the counts (1 when absent)
RECURSIVE CountOf(_, _)
CountOf(sym, ts) ==
    IF ts = <<>> THEN 0
    ELSE (IF ts[1].sym = sym THEN (IF ts[1].n = <<>> THEN 1 ELSE int(ts[1].n))
                             ELSE 0) + CountOf(sym, Tail(ts))

\* the counts the grammar gives for each element of the table
Counts(f) == [el \in Elements |-> CountOf(ElChars[el], Tokens(f, 1))]

\* C11 (as claimed): on a formula of the grammar parse_formula returns, for
\* every element, the sum of the counts of its occurrences (1 for an absent
\* count), and 0 for an element that does not occur
Claim_C11_ParseCounts ==
    \A c \in Parses : WellFormed(c.meta_form) => c.el_dict = Counts(c.meta_form)

\* g with its p-th character removed
Without(g, p) == SubSeq(g, 1, p - 1) \o SubSeq(g, p + 1, Len(g))

\* position p of g holds a space put between two tokens, or between a symbol
\* and its count, of a formula of the grammar
SpaceInserted(g, p) ==
    /\ g[p] = " "
    /\ WellFormed(Without(g, p))
    /\ ~(1 < p /\ p < Len(g) /\ IsUpper(g[p - 1]) /\ IsLower(g[p + 1]))
    /\ ~(1 < p /\ p < Len(g) /\ IsDigit(g[p - 1]) /\ IsDigit(g[p + 1]))

\* C12 (as claimed): a space inserted between two tokens, or between an
\* element symbol and its count, leaves the counts returned unchanged
Claim_C12_Whitespace ==
    \A c \in Parses :
        \A p \in DOMAIN c.meta_form :
            SpaceInserted(c.meta_form, p)
            => c.el_dict = parse_formula(keys, Without(c.meta_form, p))

-----------------------------------------------------------------------------
(* Corrections of a single measurement whose fit may stop before it has     *)
(* converged.  Under Spec every fit converges.                              *)

\* the numerical library: the next fit ends as f says
solver_outcome(f) ==
    /\ fit' = f
    /\ last' = Quiet
    /\ UNCHANGED <<keys, cb_el_cor, cb_el_excluded, cb_mean_enr, entry_el_pur,
                   entry_form_meta, entry_form_der, input_file, liste,
                   dict_meta, sample_list>>

NextFit ==
    \/ \E f \in Fits : solver_outcome(f)
    \/ \E lines \in SingleFiles : cmd_parse_single(lines)
    \/ \E text \in FormulaTexts : modif_form_meta(text)
    \/ cmd_correction

SpecFit == Init /\ [][NextFit]_vars

\* C13 (as claimed): a fit that stops without converging is reported as such
\* by the correction, never returned as an ordinary result without error
Claim_C13_SolverDidNotConverge ==
    \A c \in Calls :
        c.self.warnflag \in {1, 2} => (c.self.err # "" \/ c.self.raised # "")

-----------------------------------------------------------------------------
\* C14: once process has set an error (cluster too short, fragment too small,
\* tracer absent) it builds no correction matrix and runs no solver, and mid,
\* residuum and enr_calc keep the values they had before the checks
Thm_C14_ErrorsShortCircuit ==
    \A c \in Calls :
        c.self.err # ""
        => /\ c.self.err \in {ErrTooShort, ErrTooSmall, ErrNoTracer}
           /\ c.self.correction_matrix = <<>>
           /\ c.self.solution = NoVector
           /\ c.self.warnflag = -1
           /\ c.self.mid = <<>>
           /\ c.self.residuum = <<inf>>
           /\ c.self.enr_calc = NotSet
           /\ c.self.raised = ""

\* a call asked for the mean enrichment of a cluster with signal, stopped by
\* an error
Wit_C14_ErrorsShortCircuit ==
    \E c \in Calls :
        /\ c.self.err = ErrTooSmall /\ c.calc_mean_enr
        /\ SeqSum(Measured(c).num) > 0

-----------------------------------------------------------------------------
\* two calls given the same formulas, options, purity and tracer
SameButMeasured(c1, c2) ==
    /\ c1.meta_form = c2.meta_form /\ c1.der_form = c2.der_form
    /\ c1.calc_mean_enr = c2.calc_mean_enr /\ c1.el_excluded = c2.el_excluded
    /\ c1.el_pur = c2.el_pur /\ c1.el_cor = c2.el_cor

\* the factors alpha of the rescalings looked at
ScaleFactors == {<<2, 1>>, <<1, 2>>}

\* the measured vector of c2 is alpha times that of c1
ScaledBy(c1, c2, alpha) ==
    /\ Len(c1.v_measured) = Len(c2.v_measured)
    /\ \A k \in DOMAIN c1.v_measured :
           c2.v_measured[k] = RatMul(alpha, c1.v_measured[k])

\* alpha times a reported float
Scale(alpha, q) == IF q = inf THEN inf ELSE RatMul(alpha, q)

-----------------------------------------------------------------------------
\* the purity vector [0, ..., 0, 1] of the tracer of call c
PerfectPurity(c) ==
    /\ Len(c.el_pur) = Len(isotop[c.el_cor].num)
    /\ \A k \in DOMAIN c.el_pur :
           c.el_pur[k] = IF k = Len(c.el_pur) THEN <<1, 1>> ELSE <<0, 1>>

\* the measured vector of c is column j (from 0) of its correction matrix
MeasuredColumn(c, j) ==
    /\ j + 1 \in DOMAIN c.self.correction_matrix
    /\ Floats(c.self.correction_matrix[j + 1]) = c.v_measured

\* the unit vector e_j of length n + 1, as reported floats
UnitVector(n, j) == [i \in 1..(n + 1) |-> IF i = j + 1 THEN <<1, 1>> ELSE <<0, 1>>]

\* C16: with perfect purity and the tracer's natural abundance not corrected,
\* a measured vector equal to column j of the correction matrix is corrected
\* to e_j, with zero residuum and mean enrichment j/n
Thm_C16_PerfectPurityRoundTrip ==
    \A c \in Calls : \A j \in 0..c.self.nAtom_cor :
        (Completed(c) /\ PerfectPurity(c) /\ c.el_excluded = c.el_cor
            /\ MeasuredColumn(c, j))
        => /\ c.self.mid = UnitVector(c.self.nAtom_cor, j)
           /\ c.self.residuum = [k \in DOMAIN c.v_measured |-> <<0, 1>>]
           /\ (c.calc_mean_enr /\ c.self.nAtom_cor >= 1)
                  => c.self.enr_calc = Rat(j, c.self.nAtom_cor)

\* a column other than the first, of a matrix built from an MDV with more
\* than one entry, measured and corrected with its mean enrichment
Wit_C16_PerfectPurityRoundTrip ==
    \E c \in Calls : \E j \in 1..c.self.nAtom_cor :
        /\ Completed(c) /\ PerfectPurity(c) /\ c.el_excluded = c.el_cor
        /\ MeasuredColumn(c, j) /\ MdvLength(c) > 1 /\ c.calc_mean_enr
        /\ c.self.mid = UnitVector(c.self.nAtom_cor, j)

-----------------------------------------------------------------------------
-----------------------------------------------------------------------------
\* two calls given the same arguments
SameInputs(c1, c2) ==
    SameButMeasured(c1, c2) /\ c1.v_measured = c2.v_measured

\* the measured vector and the formulas of call c are still what the
\* program holds once the handler is done
InputsKept(c) ==
    IF input_file = ""
        THEN /\ c.v_measured = [k \in DOMAIN liste |-> float(liste[k])]
             /\ c.meta_form = entry_form_meta
             /\ c.der_form = entry_form_der
    ELSE \E sample \in DOMAIN dict_meta :
            \E j \in DOMAIN dict_meta[sample] :
                LET metabolite == dict_meta[sample][j]
                IN  /\ metabolite.v_mes = c.v_measured
                    /\ InList(metabolite.meta_name, meta_list)
                    /\ dict_form_meta[metabolite.meta_name] = c.meta_form
                    /\ \/ metabolite.der_name = "" /\ c.der_form = <<>>
                       \/ /\ InList(metabolite.der_name, der_list)
                          /\ dict_form_der[metabolite.der_name] = c.der_form

-----------------------------------------------------------------------------
\* the peaks a file holds: its lines that are not empty, ',' read as '.'
PeaksOf(lines) ==
    LET NotEmpty(peak) == peak # ""
    IN  SelectSeq([k \in DOMAIN lines |-> DecimalPoint(lines[k])], NotEmpty)

\* a list of peaks that are all numbers, one of them below zero
HasNegative(peaks) ==
    /\ \A k \in DOMAIN peaks : IsFloat(peaks[k])
    /\ \E k \in DOMAIN peaks : ~RatLe(<<0, 1>>, float(peaks[k]))

\* C19: negative intensities are no error.  Once a file of peaks, some of
\* them negative, is loaded, the list box holds every peak in the order of the
\* file and the warning was shown once and nothing else; once a list box that
\* holds negative peaks is corrected (purity and formula given), process was
\* called on exactly these values and no message but its own was shown
Thm_C19_NegativePeaks ==
    /\ (last.handler = "cmd_parse_single" /\ HasNegative(PeaksOf(last.lines)))
           => /\ liste = PeaksOf(last.lines)
              /\ last.msg = <<WarnNegative>>
    /\ (/\ last.handler = "cmd_correction" /\ input_file = ""
        /\ HasNegative(liste) /\ entry_form_meta # <<>>
        /\ CheckPurity(entry_el_pur, cb_el_cor).error = 0)
           => /\ Len(last.calls) = 1
              /\ last.calls[1].v_measured = [k \in DOMAIN liste |-> float(liste[k])]
              /\ last.msg \in {<<>>, <<last.calls[1].self.err>>}

\* a cluster with a negative peak, loaded from a file and corrected
Wit_C19_NegativePeaks ==
    /\ last.handler = "cmd_correction" /\ input_file = ""
    /\ HasNegative(liste)
    /\ \E c \in Calls :
           /\ \E k \in DOMAIN c.v_measured : ~RatLe(<<0, 1>>, c.v_measured[k])
           /\ Completed(c) /\ c.self.mid # <<>>

-----------------------------------------------------------------------------
\* the sum of the entries of a column, as a float
ColumnSum(column) == Rat(SeqSum(column.num), column.den)

\* C20 (as claimed): the columns of the correction matrix of every accepted
\* call have no negative entry and sum to at most 1, and to 1 exactly when
\* the cluster is as long as the MDV plus n*Delta
Claim_C20_ColumnStochasticity ==
    \A c \in Calls :
        Completed(c) =>
            \A j \in DOMAIN c.self.correction_matrix :
                LET column == c.self.correction_matrix[j]
                IN  /\ \A k \in DOMAIN column.num : column.num[k] >= 0
                    /\ RatLe(ColumnSum(column), <<1, 1>>)
                    /\ Len(c.v_measured) >= MdvLength(c) + c.self.nAtom_cor * Delta(c)
                           => ColumnSum(column) = <<1, 1>>

-----------------------------------------------------------------------------
(* Corrections of a single measurement with formulas of several elements    *)
(* in both moieties, in both orders, and a tracer that is not pure.         *)

MdvFiles == {Unit(L, 1) : L \in 1..MaxPeaks}

MdvFormulas ==
    {<<"C">>, <<"C", "2">>, <<"C", "l">>, <<"C", "l", "C">>,
     <<"C", "l", "2", "C">>, <<"C", "l", "C", "2">>}

MdvDerivatives == {<<>>, <<"C">>, <<"C", "l">>, <<"C", "l", "C">>}

MdvPurities ==
    {<<"0", "1.0">>, <<"0.5", "0.5">>, <<"0", "0.5", "0.5">>, <<"1", "1.0">>}

NextMdv ==
    \/ \E lines \in MdvFiles : cmd_parse_single(lines)
    \/ \E el \in Tracers : modif_el_cor(el)
    \/ \E text \in MdvPurities : edit_el_pur(text)
    \/ \E text \in MdvFormulas : modif_form_meta(text)
    \/ \E text \in MdvDerivatives : modif_form_der(text)
    \/ \E value \in {"yes", "no"} : select_el_excluded(value)
    \/ cmd_correction

SpecMdv == Init /\ [][NextMdv]_vars

\* the counts process parsed from the formulas of call c
MetaCounts(c) == parse_formula(keys, c.meta_form)

DerCounts(c) == parse_formula(keys, c.der_form)

\* correction_vector of call c, as calc_mdv returned it
MdvOf(c) == calc_mdv(keys, MetaCounts(c), DerCounts(c), c.el_cor, c.el_excluded)

\* C21: the vector calc_mdv returns is a probability vector (no negative
\* entry, sum 1) of length 1 + the sum of n_e*(k_e - 1) over the atoms it
\* convolves, and this is the length c_size the checks of process use
Thm_C21_MdvProbabilityVector ==
    \A c \in Calls :
        LET mdv == MdvOf(c)
        IN  /\ \A k \in DOMAIN mdv.num : mdv.num[k] >= 0
            /\ mdv.den > 0 /\ SeqSum(mdv.num) = mdv.den
            /\ Len(mdv.num) = MdvLength(c)
            /\ c.self.c_size = Len(mdv.num)

\* a call whose MDV mixes two elements: Cl of the metabolite, C of the
\* derivative
Wit_C21_MdvProbabilityVector ==
    \E c \in Calls :
        /\ c.el_cor = "C" /\ MetaCounts(c)["Cl"] >= 1 /\ DerCounts(c)["C"] >= 1
        /\ Len(MdvOf(c).num) >= 4
        /\ Completed(c)

-----------------------------------------------------------------------------
\* a single correction was asked for with a formula and a cluster in the
\* widgets
SingleAsked ==
    /\ last.handler = "cmd_correction" /\ input_file = ""
    /\ entry_form_meta # <<>> /\ liste # <<>>

\* the checks the request in the widgets fails
EntryTracerAbsent == ~Contains(entry_form_meta, ElChars[cb_el_cor])

EntryLengthBad ==
    LET el_excluded == IF cb_el_excluded = "no" THEN cb_el_cor ELSE ""
        meta == parse_formula(keys, entry_form_meta)
        der == parse_formula(keys, entry_form_der)
        c_size == Len(calc_mdv(keys, meta, der, cb_el_cor, el_excluded).num)
        shift == meta[cb_el_cor] * (Len(isotop[cb_el_cor].num) - 1)
    IN  Len(liste) < shift + 1 \/ Len(liste) > c_size + shift

EntryPurityBad ==
    PurityInvalid \/ \E k \in DOMAIN entry_el_pur : ~IsFloat(entry_el_pur[k])

PurityErrors == {<<ErrPurity>>, <<ErrPurityLen>>, <<ErrPuritySum>>}

\* C22 (as claimed): of several failed checks the earliest in the order
\* tracer present, measurement length, purity is the one reported
Claim_C22_OrderOfChecks ==
    SingleAsked =>
        /\ EntryTracerAbsent => last.msg = <<ErrNoTracer>>
        /\ (~EntryTracerAbsent /\ EntryLengthBad)
               => last.msg \in {<<ErrTooShort>>, <<ErrTooSmall>>}
        /\ (~EntryTracerAbsent /\ ~EntryLengthBad /\ EntryPurityBad)
               => last.msg \in PurityErrors

\* the error process leaves for call c, by its own order: tracer present,
\* then the length of the cluster
ErrExpected(c) ==
    IF ~Contains(c.meta_form, ElChars[c.el_cor]) THEN ErrNoTracer
    ELSE IF c.self.m_size > c.self.c_size + c.self.nAtom_cor * Delta(c)
        THEN ErrTooSmall
    ELSE IF c.self.m_size < c.self.nAtom_cor * Delta(c) + 1 THEN ErrTooShort
    ELSE ""

\* C22 (amended): the purity vector is checked first, by the handler: if it
\* fails, its error is the only one shown and process is not called, whatever
\* else is wrong; otherwise each call reports tracer absent before a bad
\* length of the cluster, and a single correction shows that error
Thm_C22_OrderOfChecks ==
    last.handler = "cmd_correction" =>
        /\ EntryPurityBad
               => /\ last.msg \in PurityErrors
                  /\ last.calls = <<>>
        /\ \A c \in Calls : c.self.err = ErrExpected(c)
        /\ (SingleAsked /\ ~EntryPurityBad)
               => /\ Len(last.calls) = 1
                  /\ last.msg = IF last.calls[1].self.err = "" THEN <<>>
                                ELSE <<last.calls[1].self.err>>

\* the tracer is absent from the formula and the purity vector has the wrong
\* length: the purity error is shown
Wit_C22_OrderOfChecks ==
    /\ SingleAsked /\ EntryTracerAbsent
    /\ Len(entry_el_pur) # Len(isotop[cb_el_cor].num)
    /\ last.msg = <<ErrPurityLen>>

-----------------------------------------------------------------------------
\* two vectors with the same entries
SameVector(a, b) ==
    /\ Len(a.num) = Len(b.num)
    /\ \A k \in DOMAIN a.num : a.num[k] * b.den = b.num[k] * a.den

\* entry k of the product of the polynomials a and b: the sum of
\* a[i]*b[k+1-i] over i = lo..k
RECURSIVE ProductEntry(_, _, _, _)
ProductEntry(a, b, k, lo) ==
    IF lo > k THEN 0
    ELSE (IF lo <= Len(a) /\ k + 1 - lo <= Len(b) THEN a[lo] * b[k + 1 - lo] ELSE 0)
             + ProductEntry(a, b, k, lo + 1)

\* the first M entries of the product of column and w
MixedOnce(column, w, M) ==
    [num |-> [k \in 1..M |-> ProductEntry(column.num, w.num, k, 1)],
     den |-> column.den * w.den]

\* cnt times mixed with w, cut to M entries each time
RECURSIVE Mixed(_, _, _, _)
Mixed(column, w, cnt, M) ==
    IF cnt = 0 THEN column ELSE MixedOnce(Mixed(column, w, cnt - 1, M), w, M)

\* the MDV of call c on M entries: cut, or filled with zeros
MdvOnWindow(c, M) ==
    LET mdv == MdvOf(c)
    IN  [num |-> [k \in 1..M |-> IF k <= Len(mdv.num) THEN mdv.num[k] ELSE 0],
         den |-> mdv.den]

\* column j of the matrix of call c as C23 words it, for the setting of
\* "nat. ab. of the tracer" in the widget
ColumnClaimed(c, j) ==
    LET M == Len(c.v_measured)
        purity == Mixed(MdvOnWindow(c, M), ToVector(c.el_pur), j, M)
    IN  IF cb_el_excluded = "yes"
            THEN Mixed(purity, isotop[c.el_cor], c.self.nAtom_cor - j, M)
            ELSE purity

\* C23: the correction matrix of an accepted call has n+1 columns of M
\* entries; column j is the MDV on M entries mixed j times with the purity
\* vector and, only if the natural abundance of the tracer is to be corrected,
\* n-j times with the tracer's isotope vector, cut to M entries each time
Thm_C23_MatrixConstruction ==
    \A c \in Calls :
        c.self.err = "" =>
            /\ Len(c.self.correction_matrix) = c.self.nAtom_cor + 1
            /\ \A j \in 0..c.self.nAtom_cor :
                   /\ Len(c.self.correction_matrix[j + 1].num) = Len(c.v_measured)
                   /\ SameVector(c.self.correction_matrix[j + 1], ColumnClaimed(c, j))

\* a matrix of three columns and four rows, with a tracer that is not pure
\* and its natural abundance not to be corrected
Wit_C23_MatrixConstruction ==
    \E c \in Calls :
        /\ Completed(c) /\ c.self.nAtom_cor = 2
        /\ c.el_pur = <<<<1, 2>>, <<1, 2>>>>
        /\ Len(c.v_measured) = 4 /\ c.self.c_size >= 2
        /\ cb_el_excluded = "no"

-----------------------------------------------------------------------------
\* the product of the polynomial a with the cnt-th power of w, in full
RECURSIVE TimesPower(_, _, _)
TimesPower(a, w, cnt) ==
    IF cnt = 0 THEN a
    ELSE LET b == TimesPower(a, w, cnt - 1)
         IN  MixedOnce(b, w, Len(b.num) + Len(w.num) - 1)

\* the element of the table that is not the tracer of call c
Other(c) == CHOOSE el \in Elements : el # c.el_cor

\* the MDV as C24 words it: one factor per atom of the metabolite that is not
\* a tracer atom, one per atom of the derivative
MdvClaimed(c) ==
    LET meta == TimesPower([num |-> <<1>>, den |-> 1], isotop[Other(c)],
                           MetaCounts(c)[Other(c)])
        der  == TimesPower(meta, isotop[Other(c)], DerCounts(c)[Other(c)])
    IN  TimesPower(der, isotop[c.el_cor], DerCounts(c)[c.el_cor])

\* C24: calc_mdv convolves one isotope vector per atom of the metabolite other
\* than the tracer's and one per atom of the derivative, the tracer's
\* included; with or without the exclusion flag it equals the MDV of the
\* metabolite formula with the tracer element removed and nothing excluded
Thm_C24_MdvComposition ==
    \A c \in Calls :
        /\ SameVector(MdvOf(c), MdvClaimed(c))
        /\ MdvOf(c) = calc_mdv(keys, [MetaCounts(c) EXCEPT ![c.el_cor] = 0],
                               DerCounts(c), "", "")

\* the tracer is in both moieties, another element in the metabolite, and the
\* exclusion flag is set
Wit_C24_MdvComposition ==
    \E c \in Calls :
        /\ MetaCounts(c)[c.el_cor] >= 1 /\ MetaCounts(c)[Other(c)] >= 1
        /\ DerCounts(c)[c.el_cor] >= 1
        /\ c.el_excluded = c.el_cor
        /\ Completed(c)

-----------------------------------------------------------------------------
\* C25: the vector calc_mdv returns for the counts of a call is the same
\* under every order in which the dicts of counts can be traversed
Thm_C25_MdvExchangeability ==
    \A c \in Calls :
        \A ks \in KeyOrders :
            calc_mdv(ks, MetaCounts(c), DerCounts(c), c.el_cor, c.el_excluded)
                = MdvOf(c)

\* a derivative with atoms of both elements, so that the two orders convolve
\* different vectors first
Wit_C25_MdvExchangeability ==
    \E c \in Calls :
        /\ DerCounts(c)["C"] >= 1 /\ DerCounts(c)["Cl"] >= 1
        /\ MetaCounts(c)[Other(c)] >= 1
        /\ Completed(c)

-----------------------------------------------------------------------------
\* the metabolites of the samples from the i-th on, as pairs <<sample, name>>
\* in the order of sample_list and, within a sample, of the file
RECURSIVE Loaded(_)
Loaded(i) ==
    IF i > Len(sample_list) THEN <<>>
    ELSE [j \in DOMAIN dict_meta[sample_list[i]] |->
             <<sample_list[i], dict_meta[sample_list[i]][j].meta_name>>]
         \o Loaded(i + 1)

\* the first line each metabolite has in the result file: a message, or the
\* row of peak 0
FirstLines ==
    LET IsFirst(line) == line.kind # "row" \/ line.index = 0
    IN  SelectSeq(last.output, IsFirst)

\* a batch was corrected with a valid purity vector
BatchDone ==
    /\ last.handler = "cmd_correction" /\ input_file # ""
    /\ CheckPurity(entry_el_pur, cb_el_cor).error = 0

\* C26 (as claimed): a batch correction writes, for every metabolite of every
\* sample, in the order of the samples and of the file, at least one line: its
\* rows, "No data." or an error; no metabolite is skipped and none stops the loop
Claim_C26_BatchHandlesAll ==
    BatchDone =>
        /\ last.raised = ""
        /\ [k \in DOMAIN FirstLines |->
               <<FirstLines[k].sample, FirstLines[k].metabolite>>] = Loaded(1)

-----------------------------------------------------------------------------
(* Loading files of both kinds in any sequence, and correcting what is      *)
(* loaded.                                                                  *)

NextLoad ==
    \/ \E lines \in SingleFiles : cmd_parse_single(lines)
    \/ cmd_parse_single_cancel
    \/ \E path \in DOMAIN LoadFiles : cmd_parse_multiple(path)
    \/ cmd_parse_multiple_cancel
    \/ \E selection \in DOMAIN meta_list : select_meta(selection)
    \/ cmd_correction

SpecLoad == Init /\ [][NextLoad]_vars

\* the number of intensities the records of sample_list[i..] hold
RECURSIVE StoredIn(_)
StoredIn(records) ==
    IF records = <<>> THEN 0 ELSE Len(records[1].v_mes) + StoredIn(Tail(records))

RECURSIVE StoredIntensities(_)
StoredIntensities(i) ==
    IF i > Len(sample_list) THEN 0
    ELSE StoredIn(dict_meta[sample_list[i]]) + StoredIntensities(i + 1)

\* C27: while input_file is empty every item of the list box is a number, so
\* a single correction never fails on an item; a multi-measurement load that
\* failed leaves input_file empty and the list box cleared; a batch is only
\* ever corrected from a file that was read to its last row
Thm_C27_LoadMode ==
    /\ input_file = "" => \A k \in DOMAIN liste : IsFloat(liste[k])
    /\ last.raised # "ValueError"
    /\ (last.handler = "cmd_parse_multiple" /\ last.msg # <<>>)
           => input_file = "" /\ liste = <<>>
    /\ (last.handler = "cmd_correction" /\ last.output # <<>>)
           => /\ input_file \in DOMAIN LoadFiles
              /\ StoredIntensities(1) = Len(LoadFiles[input_file])

\* a failed multi-measurement load after a successful one, then a correction:
\* the records read before the bad row are still there, and no batch ran
Wit_C27_LoadMode ==
    /\ last.handler = "cmd_correction" /\ input_file = ""
    /\ liste = <<>> /\ sample_list # <<>>
    /\ entry_form_meta # <<>>
    /\ last.msg = <<ErrNoData>>

-----------------------------------------------------------------------------
\* the sample row i of a file belongs to: the last sample name at or above it
RECURSIVE SampleOfRow(_, _)
SampleOfRow(rows, i) ==
    IF i = 0 THEN ""
    ELSE IF rows[i][1] # "" THEN rows[i][1] ELSE SampleOfRow(rows, i - 1)

\* the sample names of the rows up to row i, each once, in the order of
\* their first appearance
RECURSIVE FirstAppearance(_, _)
FirstAppearance(rows, i) ==
    IF i = 0 THEN <<>>
    ELSE LET before == FirstAppearance(rows, i - 1)
         IN  IF rows[i][1] = "" \/ InList(rows[i][1], before) THEN before
             ELSE Append(before, rows[i][1])

\* what a row gives the record it goes to: the names if it starts one, and
\* its intensity
RowShare(row) ==
    IF row[2] # ""
        THEN <<TRUE, strip(row[2]), strip(row[3]), float(DecimalPoint(row[4]))>>
        ELSE <<FALSE, "", "", float(DecimalPoint(row[4]))>>

\* the rows of a file that belong to a sample, in file order
RowsOf(rows, sample) ==
    LET numbered == [i \in DOMAIN rows |-> [row |-> rows[i], of |-> SampleOfRow(rows, i)]]
        Mine(r) == r.of = sample
        mine == SelectSeq(numbered, Mine)
    IN  [k \in DOMAIN mine |-> RowShare(mine[k].row)]

\* the intensities a list of records holds, in order, each with the names of
\* its record if it is the first of it
RECURSIVE Shares(_)
Shares(records) ==
    IF records = <<>> THEN <<>>
    ELSE LET m == records[1]
         IN  [k \in DOMAIN m.v_mes |->
                 IF k = 1 THEN <<TRUE, m.meta_name, m.der_name, m.v_mes[k]>>
                 ELSE <<FALSE, "", "", m.v_mes[k]>>]
             \o Shares(Tail(records))

\* C28: while a multi-measurement file is loaded, every row of it has given
\* its intensity to exactly one record; a row with a metabolite name started a
\* record of the current sample, a row without one extended the last record
\* of the current sample, in file order; sample_list holds each sample once,
\* in the order of first appearance
Thm_C28_MultiParsing ==
    input_file # "" =>
        LET rows == LoadFiles[input_file]
        IN  /\ StoredIntensities(1) = Len(rows)
            /\ sample_list = FirstAppearance(rows, Len(rows))
            /\ DOMAIN dict_meta = {sample_list[i] : i \in DOMAIN sample_list}
            /\ \A sample \in DOMAIN dict_meta :
                   /\ Shares(dict_meta[sample]) = RowsOf(rows, sample)
                   /\ \A j \in DOMAIN dict_meta[sample] :
                          dict_meta[sample][j].v_mes # <<>>

\* a file in which a sample comes back, once with a row that starts a record
\* and once with a row that extends one, was loaded
Wit_C28_MultiParsing ==
    /\ last.handler = "cmd_parse_multiple" /\ input_file # ""
    /\ \E i, j \in DOMAIN LoadFiles[input_file] :
           LET rows == LoadFiles[input_file]
           IN  /\ i < j /\ rows[j][1] # "" /\ rows[j][1] = rows[i][1]
               /\ rows[j][2] = "" /\ SampleOfRow(rows, j - 1) # rows[j][1]
    /\ \E sample \in DOMAIN dict_meta :
           \E k \in DOMAIN dict_meta[sample] : Len(dict_meta[sample][k].v_mes) >= 3

-----------------------------------------------------------------------------
\* column j of call c with nothing cut: the whole MDV times the j-th power of
\* the purity vector and, if the tracer's natural abundance is mixed in, the
\* (n-j)-th power of the tracer's isotope vector
ColumnUncut(c, j) ==
    LET purity == TimesPower(MdvOf(c), ToVector(c.el_pur), j)
    IN  IF c.el_excluded # c.el_cor
            THEN TimesPower(purity, isotop[c.el_cor], c.self.nAtom_cor - j)
            ELSE purity

\* C29: every column of the matrix of an accepted call holds the first M
\* entries of the product computed with nothing cut (zeros past its end):
\* cutting after each convolution loses nothing of rows 0..M-1 and nothing
\* past row M-1 comes back into them
Thm_C29_TruncationEquivalence ==
    \A c \in Calls :
        c.self.err = "" =>
            \A j \in 0..c.self.nAtom_cor :
                LET column == c.self.correction_matrix[j + 1]
                    uncut == ColumnUncut(c, j)
                IN  /\ Len(column.num) = Len(c.v_measured)
                    /\ \A k \in DOMAIN column.num :
                           column.num[k] * uncut.den
                               = (IF k <= Len(uncut.num) THEN uncut.num[k] ELSE 0)
                                     * column.den

\* a column whose uncut product is longer than the cluster, cut at two
\* convolutions or more, with an entry that is not zero past the cut
Wit_C29_TruncationEquivalence ==
    \E c \in Calls :
        /\ Completed(c) /\ c.self.nAtom_cor >= 2
        /\ \E j \in 0..c.self.nAtom_cor :
               LET uncut == ColumnUncut(c, j)
               IN  /\ Len(uncut.num) > Len(c.v_measured)
                   /\ uncut.num[Len(uncut.num)] # 0
                   /\ c.self.c_size + Delta(c) > Len(c.v_measured)

-----------------------------------------------------------------------------
\* C30 (as claimed): the counts parse_formula returns for a formula are the
\* same under every order of the keys of the isotope table, also when one
\* symbol is the beginning of another (C and Cl)
Claim_C30_ParseOrderIndependent ==
    \A c \in Parses :
        \A ks \in KeyOrders : parse_formula(ks, c.meta_form) = c.el_dict

Spec == Init /\ [][Next]_vars
====
